---- MODULE Spec2Model ----
(***************************************************************************)
(* Entity definition inheritance resolution of TrenchBroom                 *)
(* (EntityDefinitionParser.cpp): filterRedundantClasses, the super class   *)
(* selection, the cycle guarded depth first walk of inheritFromAndRecurse  *)
(* / findSuperClassesAndInheritFrom, inheritAttributes and mergeAttributes.*)
(*                                                                         *)
(* An optional<T> is a sequence of length 0 (nullopt) or 1 (engaged).      *)
(* A class info is a record; its location is its index in the input.      *)
(***************************************************************************)
EXTENDS Integers, Sequences, FiniteSets, TLC

\* ------------------------------------------------------------------ bounds
MaxClasses == 3      \* longest input list of the hierarchy specifications
MaxDeepClasses == 4  \* longest input list of the deep hierarchy specification
MaxEdges == 3        \* most super class declarations in one input list
MaxDeepEdges == 4    \* the same, in the deep hierarchy specification
MaxSupers == 2       \* most super classes one class declares
MaxAttrs == 2        \* most optional attributes set in one input list
MaxProps == 3        \* most property definitions declared in one input list
MaxCandidates == 3   \* longest candidate list handed to selectSuperClass
MaxFilterLen == 4    \* longest input list of the filter specification
MaxOptions == 2
MaxKeys == 2      \* most options of one flags definition

\* ------------------------------------------------------- program constants
NumFlagBits == 24    \* the loop bound of mergeAttributes

\* ------------------------------------------------------------ vocabulary
PointClass == "PointClass"
BrushClass == "BrushClass"
BaseClass == "BaseClass"
ClassTypes == {PointClass, BrushClass, BaseClass}

Spawnflags == "spawnflags"
FlagsProperty == "FlagsProperty"
StringProperty == "StringProperty"

Nullopt == <<>>
Some(v) == <<v>>
HasValue(o) == Len(o) > 0

Pow2(n) == 2 ^ n

\* static_cast<int>(type) of the enum EntityDefinitionClassType
TypeCode(type) ==
  CASE type = PointClass -> 0
    [] type = BrushClass -> 1
    [] type = BaseClass -> 2

\* getMask: 1 << static_cast<int>(type)
GetMask(type) == Pow2(TypeCode(type))

\* a & b for a one-bit mask a = 2^k
BitAnd1(a, b) == IF (b \div a) % 2 = 1 THEN a ELSE 0

\* a | b for a one-bit mask b = 2^k
BitOr1(a, b) == IF BitAnd1(b, a) # 0 THEN a ELSE a + b

\* ---------------------------------------------------------- diagnostics
Warn(loc, kind, name) == [level |-> "warn", loc |-> loc, kind |-> kind, name |-> name]
Error(loc, kind, name) == [level |-> "error", loc |-> loc, kind |-> kind, name |-> name]

\* ------------------------------------------------- property definitions
\* One option of a flags definition.
FlagOption(value, shortDescription, longDescription, isDefault) ==
  [value |-> value, shortDescription |-> shortDescription,
   longDescription |-> longDescription, isDefault |-> isDefault]

\* A property definition: key, type, the options of a flags definition, and
\* info, which stands for its descriptions, default value and read-only flag.
PropertyDefinition(key, type, options, info) ==
  [key |-> key, type |-> type, options |-> options, info |-> info]

\* make_shared<FlagsPropertyDefinition>(name): no options, no descriptions
NewFlagsPropertyDefinition(name) == PropertyDefinition(name, FlagsProperty, <<>>, 0)

\* FlagsPropertyDefinition::addOption: the option is added at the end
AddOption(def, value, shortDescription, longDescription, isDefault) ==
  [def EXCEPT !.options =
     Append(@, FlagOption(value, shortDescription, longDescription, isDefault))]

Min(S) == CHOOSE x \in S : \A y \in S : x <= y

\* std::find_if: of the positions whose element satisfies the predicate, the
\* first one; 0 stands for end().
FindIf(positions) == IF positions = {} THEN 0 ELSE Min(positions)

\* Flags::flag / FlagsPropertyDefinition::option: the first option with the
\* given value, or nullptr.
FlagOf(def, flagValue) ==
  LET iFlag == FindIf({i \in DOMAIN def.options : def.options[i].value = flagValue})
  IN  IF iFlag # 0 THEN Some(def.options[iFlag]) ELSE Nullopt

\* Mutant of MergeFlagBits: the super class's option for a bit is taken before
\* the inheriting class's.
RECURSIVE MergeFlagBitsSuperWins(_, _, _, _)
MergeFlagBitsSuperWins(result, classFlags, baseclassFlags, i) ==
  IF i >= NumFlagBits THEN result
  ELSE
    LET baseclassFlag == FlagOf(baseclassFlags, Pow2(i))
        classFlag == FlagOf(classFlags, Pow2(i))
        next ==
          IF HasValue(baseclassFlag)
          THEN AddOption(result, baseclassFlag[1].value,
                         baseclassFlag[1].shortDescription,
                         baseclassFlag[1].longDescription,
                         baseclassFlag[1].isDefault)
          ELSE IF HasValue(classFlag)
          THEN AddOption(result, classFlag[1].value,
                         classFlag[1].shortDescription,
                         classFlag[1].longDescription,
                         classFlag[1].isDefault)
          ELSE result
    IN  MergeFlagBitsSuperWins(next, classFlags, baseclassFlags, i + 1)

\* The body of the loop of mergeAttributes for i, i+1, ..., NumFlagBits-1.
RECURSIVE MergeFlagBits(_, _, _, _)
MergeFlagBits(result, classFlags, baseclassFlags, i) ==
  IF i >= NumFlagBits THEN result
  ELSE
    LET baseclassFlag == FlagOf(baseclassFlags, Pow2(i))
        classFlag == FlagOf(classFlags, Pow2(i))
        next ==
          IF HasValue(baseclassFlag) /\ ~HasValue(classFlag)
          THEN AddOption(result, baseclassFlag[1].value,
                         baseclassFlag[1].shortDescription,
                         baseclassFlag[1].longDescription,
                         baseclassFlag[1].isDefault)
          ELSE IF HasValue(classFlag)
          THEN AddOption(result, classFlag[1].value,
                         classFlag[1].shortDescription,
                         classFlag[1].longDescription,
                         classFlag[1].isDefault)
          ELSE result
    IN  MergeFlagBits(next, classFlags, baseclassFlags, i + 1)

\* mergeAttributes: the merged definition, or nullptr (Nullopt) when the two
\* are not both flags-typed spawnflags.
MergeAttributes(inheritingClassAttribute, superClassAttribute) ==
  IF /\ superClassAttribute.type = FlagsProperty
     /\ inheritingClassAttribute.type = FlagsProperty
     /\ superClassAttribute.key = Spawnflags
     /\ inheritingClassAttribute.key = Spawnflags
  THEN Some(MergeFlagBits(NewFlagsPropertyDefinition(inheritingClassAttribute.key),
                          inheritingClassAttribute, superClassAttribute, 0))
  ELSE Nullopt

\* ------------------------------------------------------------ class infos
\* An EntityDefinitionClassInfo: props, model and decal are its
\* propertyDefinitions, modelDefinition and decalDefinition.
ClassInfo(name, type, superClasses, description, color, size, props, model, decal, loc) ==
  [name |-> name, type |-> type, superClasses |-> superClasses,
   description |-> description, color |-> color, size |-> size,
   propertyDefinitions |-> props,
   modelDefinition |-> model, decalDefinition |-> decal,
   location |-> loc]

\* ModelDefinition::append / DecalDefinition::append: the other definition's
\* expression becomes a further alternative after the ones already there.
AppendDefinition(definition, other) == definition \o other

\* Mutant of InheritProperties: a super class's property replaces the
\* inheriting class's property of the same key when they cannot be merged.
RECURSIVE InheritPropertiesSuperWins(_, _, _)
InheritPropertiesSuperWins(propertyDefinitions, superDefinitions, i) ==
  IF i > Len(superDefinitions) THEN propertyDefinitions
  ELSE
    LET attribute == superDefinitions[i]
        it == FindIf({j \in DOMAIN propertyDefinitions :
                        propertyDefinitions[j].key = attribute.key})
        next ==
          IF it = 0
          THEN Append(propertyDefinitions, attribute)
          ELSE LET mergedAttribute ==
                     MergeAttributes(propertyDefinitions[it], attribute)
               IN  IF HasValue(mergedAttribute)
                   THEN [propertyDefinitions EXCEPT ![it] = mergedAttribute[1]]
                   ELSE [propertyDefinitions EXCEPT ![it] = attribute]
    IN  InheritPropertiesSuperWins(next, superDefinitions, i + 1)

\* Mutant of InheritProperties: a property the inheriting class does not have
\* is put before its properties instead of after them.
RECURSIVE InheritPropertiesPrepends(_, _, _)
InheritPropertiesPrepends(propertyDefinitions, superDefinitions, i) ==
  IF i > Len(superDefinitions) THEN propertyDefinitions
  ELSE
    LET attribute == superDefinitions[i]
        it == FindIf({j \in DOMAIN propertyDefinitions :
                        propertyDefinitions[j].key = attribute.key})
        next ==
          IF it = 0
          THEN <<attribute>> \o propertyDefinitions
          ELSE LET mergedAttribute ==
                     MergeAttributes(propertyDefinitions[it], attribute)
               IN  IF HasValue(mergedAttribute)
                   THEN [propertyDefinitions EXCEPT ![it] = mergedAttribute[1]]
                   ELSE propertyDefinitions
    IN  InheritPropertiesPrepends(next, superDefinitions, i + 1)

\* The loop of inheritAttributes over the super class's property definitions,
\* from its i-th on.
RECURSIVE InheritProperties(_, _, _)
InheritProperties(propertyDefinitions, superDefinitions, i) ==
  IF i > Len(superDefinitions) THEN propertyDefinitions
  ELSE
    LET attribute == superDefinitions[i]
        it == FindIf({j \in DOMAIN propertyDefinitions :
                        propertyDefinitions[j].key = attribute.key})
        next ==
          IF it = 0
          THEN Append(propertyDefinitions, attribute)
          ELSE LET mergedAttribute ==
                     MergeAttributes(propertyDefinitions[it], attribute)
               IN  IF HasValue(mergedAttribute)
                   THEN [propertyDefinitions EXCEPT ![it] = mergedAttribute[1]]
                   ELSE propertyDefinitions
    IN  InheritProperties(next, superDefinitions, i + 1)

\* Mutant of InheritAttributes: a description, color or size of the super
\* class replaces that of the inheriting class.
InheritAttributesSuperWins(inheritingClass, superClass) ==
  [inheritingClass EXCEPT
     !.description = IF HasValue(superClass.description)
                     THEN superClass.description ELSE @,
     !.color = IF HasValue(superClass.color) THEN superClass.color ELSE @,
     !.size = IF HasValue(superClass.size) THEN superClass.size ELSE @,
     !.propertyDefinitions =
        InheritProperties(@, superClass.propertyDefinitions, 1),
     !.modelDefinition =
        IF ~HasValue(@) THEN superClass.modelDefinition
        ELSE IF HasValue(superClass.modelDefinition)
             THEN Some(AppendDefinition(@[1], superClass.modelDefinition[1]))
             ELSE @,
     !.decalDefinition =
        IF ~HasValue(@) THEN superClass.decalDefinition
        ELSE IF HasValue(superClass.decalDefinition)
             THEN Some(AppendDefinition(@[1], superClass.decalDefinition[1]))
             ELSE @]

\* Mutant of InheritAttributes: a model or decal definition of the super
\* class is inherited only if the inheriting class has none (nothing is
\* appended).
InheritAttributesNoAppend(inheritingClass, superClass) ==
  [inheritingClass EXCEPT
     !.description = IF ~HasValue(@) THEN superClass.description ELSE @,
     !.color = IF ~HasValue(@) THEN superClass.color ELSE @,
     !.size = IF ~HasValue(@) THEN superClass.size ELSE @,
     !.propertyDefinitions =
        InheritProperties(@, superClass.propertyDefinitions, 1),
     !.modelDefinition = IF ~HasValue(@) THEN superClass.modelDefinition ELSE @,
     !.decalDefinition = IF ~HasValue(@) THEN superClass.decalDefinition ELSE @]

\* inheritAttributes: the inheriting class after the merge of superClass.
InheritAttributes(inheritingClass, superClass) ==
  [inheritingClass EXCEPT
     !.description = IF ~HasValue(@) THEN superClass.description ELSE @,
     !.color = IF ~HasValue(@) THEN superClass.color ELSE @,
     !.size = IF ~HasValue(@) THEN superClass.size ELSE @,
     !.propertyDefinitions =
        InheritProperties(@, superClass.propertyDefinitions, 1),
     !.modelDefinition =
        IF ~HasValue(@) THEN superClass.modelDefinition
        ELSE IF HasValue(superClass.modelDefinition)
        THEN Some(AppendDefinition(@[1], superClass.modelDefinition[1]))
        ELSE @,
     !.decalDefinition =
        IF ~HasValue(@) THEN superClass.decalDefinition
        ELSE IF HasValue(superClass.decalDefinition)
        THEN Some(AppendDefinition(@[1], superClass.decalDefinition[1]))
        ELSE @]

\* --------------------------------------------------------------- filter
\* seen[classInfo.name] of the unordered_map: 0 for a name not yet entered
SeenMask(seen, name) == IF name \in DOMAIN seen THEN seen[name] ELSE 0

SetSeen(seen, name, mask) ==
  [n \in DOMAIN seen \cup {name} |-> IF n = name THEN mask ELSE seen[n]]

\* Mutant of FilterLoop: a BaseClass that follows another kind of its name is
\* not recognised as redundant.
RECURSIVE FilterLoopKeepsLateBase(_, _, _, _, _)
FilterLoopKeepsLateBase(classInfos, i, seen, result, warnings) ==
  IF i > Len(classInfos) THEN [result |-> result, warnings |-> warnings]
  ELSE
    LET classInfo == classInfos[i]
        baseClassMask == GetMask(BaseClass)
        seenMask == SeenMask(seen, classInfo.name)
        classMask == GetMask(classInfo.type)
    IN  IF BitAnd1(classMask, seenMask) # 0
        THEN FilterLoopKeepsLateBase(classInfos, i + 1,
               SetSeen(seen, classInfo.name, seenMask), result,
               Append(warnings, Warn(classInfo.location, "Duplicate", classInfo.name)))
        ELSE IF BitAnd1(baseClassMask, seenMask) # 0
        THEN FilterLoopKeepsLateBase(classInfos, i + 1,
               SetSeen(seen, classInfo.name, seenMask), result,
               Append(warnings, Warn(classInfo.location, "Redundant", classInfo.name)))
        ELSE FilterLoopKeepsLateBase(classInfos, i + 1,
               SetSeen(seen, classInfo.name, BitOr1(seenMask, classMask)),
               Append(result, classInfo), warnings)

\* Mutant of FilterLoop: a redundant class is dropped without a warning.
RECURSIVE FilterLoopSilentRedundant(_, _, _, _, _)
FilterLoopSilentRedundant(classInfos, i, seen, result, warnings) ==
  IF i > Len(classInfos) THEN [result |-> result, warnings |-> warnings]
  ELSE
    LET classInfo == classInfos[i]
        baseClassMask == GetMask(BaseClass)
        seenMask == SeenMask(seen, classInfo.name)
        classMask == GetMask(classInfo.type)
    IN  IF BitAnd1(classMask, seenMask) # 0
        THEN FilterLoopSilentRedundant(classInfos, i + 1,
               SetSeen(seen, classInfo.name, seenMask), result,
               Append(warnings, Warn(classInfo.location, "Duplicate", classInfo.name)))
        ELSE IF \/ BitAnd1(baseClassMask, seenMask) # 0
                \/ (seenMask # 0 /\ BitAnd1(baseClassMask, classMask) # 0)
        THEN FilterLoopSilentRedundant(classInfos, i + 1,
               SetSeen(seen, classInfo.name, seenMask), result, warnings)
        ELSE FilterLoopSilentRedundant(classInfos, i + 1,
               SetSeen(seen, classInfo.name, BitOr1(seenMask, classMask)),
               Append(result, classInfo), warnings)

\* Mutant of FilterLoop: the type of a redundant class is entered in the seen
\* mask of its name although the class is dropped.
RECURSIVE FilterLoopSeesDropped(_, _, _, _, _)
FilterLoopSeesDropped(classInfos, i, seen, result, warnings) ==
  IF i > Len(classInfos) THEN [result |-> result, warnings |-> warnings]
  ELSE
    LET classInfo == classInfos[i]
        baseClassMask == GetMask(BaseClass)
        seenMask == SeenMask(seen, classInfo.name)
        classMask == GetMask(classInfo.type)
    IN  IF BitAnd1(classMask, seenMask) # 0
        THEN FilterLoopSeesDropped(classInfos, i + 1,
               SetSeen(seen, classInfo.name, seenMask), result,
               Append(warnings, Warn(classInfo.location, "Duplicate", classInfo.name)))
        ELSE IF \/ BitAnd1(baseClassMask, seenMask) # 0
                \/ (seenMask # 0 /\ BitAnd1(baseClassMask, classMask) # 0)
        THEN FilterLoopSeesDropped(classInfos, i + 1,
               SetSeen(seen, classInfo.name, BitOr1(seenMask, classMask)), result,
               Append(warnings, Warn(classInfo.location, "Redundant", classInfo.name)))
        ELSE FilterLoopSeesDropped(classInfos, i + 1,
               SetSeen(seen, classInfo.name, BitOr1(seenMask, classMask)),
               Append(result, classInfo), warnings)

\* Mutant of FilterLoop: a duplicate class is reported and kept.
RECURSIVE FilterLoopKeepsDuplicate(_, _, _, _, _)
FilterLoopKeepsDuplicate(classInfos, i, seen, result, warnings) ==
  IF i > Len(classInfos) THEN [result |-> result, warnings |-> warnings]
  ELSE
    LET classInfo == classInfos[i]
        baseClassMask == GetMask(BaseClass)
        seenMask == SeenMask(seen, classInfo.name)
        classMask == GetMask(classInfo.type)
    IN  IF BitAnd1(classMask, seenMask) # 0
        THEN FilterLoopKeepsDuplicate(classInfos, i + 1,
               SetSeen(seen, classInfo.name, seenMask), Append(result, classInfo),
               Append(warnings, Warn(classInfo.location, "Duplicate", classInfo.name)))
        ELSE IF \/ BitAnd1(baseClassMask, seenMask) # 0
                \/ (seenMask # 0 /\ BitAnd1(baseClassMask, classMask) # 0)
        THEN FilterLoopKeepsDuplicate(classInfos, i + 1,
               SetSeen(seen, classInfo.name, seenMask), result,
               Append(warnings, Warn(classInfo.location, "Redundant", classInfo.name)))
        ELSE FilterLoopKeepsDuplicate(classInfos, i + 1,
               SetSeen(seen, classInfo.name, BitOr1(seenMask, classMask)),
               Append(result, classInfo), warnings)

\* The loop of filterRedundantClasses from the i-th input record on.
RECURSIVE FilterLoop(_, _, _, _, _)
FilterLoop(classInfos, i, seen, result, warnings) ==
  IF i > Len(classInfos) THEN [result |-> result, warnings |-> warnings]
  ELSE
    LET classInfo == classInfos[i]
        baseClassMask == GetMask(BaseClass)
        seenMask == SeenMask(seen, classInfo.name)
        classMask == GetMask(classInfo.type)
    IN  IF BitAnd1(classMask, seenMask) # 0
        THEN FilterLoop(classInfos, i + 1, SetSeen(seen, classInfo.name, seenMask),
               result,
               Append(warnings, Warn(classInfo.location, "Duplicate", classInfo.name)))
        ELSE IF \/ BitAnd1(baseClassMask, seenMask) # 0
                \/ (seenMask # 0 /\ BitAnd1(baseClassMask, classMask) # 0)
        THEN FilterLoop(classInfos, i + 1, SetSeen(seen, classInfo.name, seenMask),
               result,
               Append(warnings, Warn(classInfo.location, "Redundant", classInfo.name)))
        ELSE FilterLoop(classInfos, i + 1,
               SetSeen(seen, classInfo.name, BitOr1(seenMask, classMask)),
               Append(result, classInfo), warnings)

\* filterRedundantClasses: the kept records and the warnings reported.
FilterRedundantClasses(classInfos) ==
  FilterLoop(classInfos, 1, <<>>, <<>>, <<>>)

\* ------------------------------------------------------------ definitions
\* DefaultSize, vm::bbox3d(-8, +8): the box from -8 to +8 on each axis, given
\* by its lower bound (the sizes that classes declare are positive numbers)
DefaultSize == 0 - 8

\* The empty string of value_or("") (the descriptions that classes declare
\* are positive numbers)
EmptyString == 0

\* std::optional::value_or
ValueOr(o, default) == IF HasValue(o) THEN o[1] ELSE default

\* Mutant of CreateDefinition: the default color is used although the class
\* has a color.
CreateDefinitionDefaultColor(classInfo, defaultEntityColor) ==
  LET name == classInfo.name
      color == defaultEntityColor
      size == ValueOr(classInfo.size, DefaultSize)
      description == ValueOr(classInfo.description, EmptyString)
      propertyDefinitions == classInfo.propertyDefinitions
      modelDefinition == ValueOr(classInfo.modelDefinition, <<>>)
      decalDefinition == ValueOr(classInfo.decalDefinition, <<>>)
  IN  IF classInfo.type = PointClass
      THEN Some([type |-> PointClass, name |-> name, color |-> color,
                 size |-> size, description |-> description,
                 propertyDefinitions |-> propertyDefinitions,
                 modelDefinition |-> modelDefinition,
                 decalDefinition |-> decalDefinition])
      ELSE IF classInfo.type = BrushClass
      THEN Some([type |-> BrushClass, name |-> name, color |-> color,
                 description |-> description,
                 propertyDefinitions |-> propertyDefinitions])
      ELSE Nullopt

\* createDefinition: the arguments of the PointEntityDefinition or of the
\* BrushEntityDefinition made for the class, or nullptr for a BaseClass. A
\* default-constructed model or decal definition has no expression.
CreateDefinition(classInfo, defaultEntityColor) ==
  LET name == classInfo.name
      color == ValueOr(classInfo.color, defaultEntityColor)
      size == ValueOr(classInfo.size, DefaultSize)
      description == ValueOr(classInfo.description, EmptyString)
      propertyDefinitions == classInfo.propertyDefinitions
      modelDefinition == ValueOr(classInfo.modelDefinition, <<>>)
      decalDefinition == ValueOr(classInfo.decalDefinition, <<>>)
  IN  IF classInfo.type = PointClass
      THEN Some([type |-> PointClass, name |-> name, color |-> color,
                 size |-> size, description |-> description,
                 propertyDefinitions |-> propertyDefinitions,
                 modelDefinition |-> modelDefinition,
                 decalDefinition |-> decalDefinition])
      ELSE IF classInfo.type = BrushClass
      THEN Some([type |-> BrushClass, name |-> name, color |-> color,
                 description |-> description,
                 propertyDefinitions |-> propertyDefinitions])
      ELSE Nullopt

\* The loop of createDefinitions over the resolved classes from the i-th on
RECURSIVE CreateLoop(_, _, _, _)
CreateLoop(resolvedClasses, defaultEntityColor, i, result) ==
  IF i > Len(resolvedClasses) THEN result
  ELSE LET definition == CreateDefinition(resolvedClasses[i], defaultEntityColor)
       IN  CreateLoop(resolvedClasses, defaultEntityColor, i + 1,
                      IF HasValue(definition) THEN Append(result, definition[1])
                      ELSE result)

\* ------------------------------------------------- super class selection
\* findClassInfos of the public resolveInheritance: the records of the
\* filtered list with the given name, in list order.
FindClassInfos(filteredClassInfos, name) ==
  LET HasName(c) == c.name = name
  IN  SelectSeq(filteredClassInfos, HasName)

\* findClassInfoWithType: the first candidate of the given type, or nullptr
FindClassInfoWithType(classes, type) ==
  LET it == FindIf({i \in DOMAIN classes : classes[i].type = type})
  IN  IF it # 0 THEN Some(classes[it]) ELSE Nullopt

\* Mutant of SelectSuperClass: the BaseClass candidate is looked for before
\* the candidate of the inheriting class's type.
SelectSuperClassBaseFirst(potentialSuperClasses, inheritingType) ==
  IF Len(potentialSuperClasses) = 1 THEN Some(potentialSuperClasses[1])
  ELSE IF Len(potentialSuperClasses) > 1
  THEN LET sameType == FindClassInfoWithType(potentialSuperClasses, inheritingType)
           base == FindClassInfoWithType(potentialSuperClasses, BaseClass)
       IN  IF inheritingType # BaseClass /\ HasValue(base) THEN base
           ELSE IF HasValue(sameType) THEN sameType
           ELSE Nullopt
  ELSE Nullopt

\* selectSuperClass; inheritingType is inheritingClass.type, captured by
\* reference from findSuperClassesAndInheritFrom.
SelectSuperClass(potentialSuperClasses, inheritingType) ==
  IF Len(potentialSuperClasses) = 1 THEN Some(potentialSuperClasses[1])
  ELSE IF Len(potentialSuperClasses) > 1
  THEN LET sameType == FindClassInfoWithType(potentialSuperClasses, inheritingType)
       IN  IF HasValue(sameType) THEN sameType
           ELSE IF inheritingType # BaseClass
           THEN LET base == FindClassInfoWithType(potentialSuperClasses, BaseClass)
                IN  IF HasValue(base) THEN base ELSE Nullopt
           ELSE Nullopt
  ELSE Nullopt

\* ------------------------------------------------------------ state
VARIABLES
  classInfos,          \* the input of resolveInheritance(status, classInfos)
  status,              \* ParserStatus: the diagnostics reported, in order
  pc,                  \* "filter", "resolve" (between two classes), "walk"
  filteredClassInfos,  \* the local of resolveInheritance
  cur,                 \* index in filteredClassInfos of the class last started
  inheritingClass,     \* the working copy of the class being resolved
  stack,               \* the frames of findSuperClassesAndInheritFrom
  visited,             \* the set of names of the resolution path
  merged,              \* history: locations of the classes merged, in order
  resolved,            \* the records returned so far
  fnArgs,              \* the arguments of a function applied on its own
  fnResult             \* its result

vars == <<classInfos, status, pc, filteredClassInfos, cur, inheritingClass,
          stack, visited, merged, resolved, fnArgs, fnResult>>

\* The variables of the call of resolveInheritance
callVars == <<classInfos, status, filteredClassInfos, cur, inheritingClass,
              stack, visited, merged, resolved>>

\* The class info declared at a location (locations are input indices).
ClassAt(loc) == classInfos[loc]

\* A frame of findSuperClassesAndInheritFrom: classWithSuperClasses, given by
\* its location, and the position of the loop over its superClasses.
Frame(loc, next) == [loc |-> loc, next |-> next]

Top == stack[Len(stack)]
Pop(st) == SubSeq(st, 1, Len(st) - 1)

\* Mutant of Pending: BaseClass records are resolved and returned too.
PendingWithBaseClasses == (cur + 1)..Len(filteredClassInfos)

\* The indices of the filtered list after cur whose class is not a BaseClass
Pending ==
  {j \in (cur + 1)..Len(filteredClassInfos) :
     filteredClassInfos[j].type # BaseClass}

Done == pc = "resolve" /\ Pending = {}

\* The state before the call, for the given input.
InitWith(input) ==
  /\ classInfos = input
  /\ status = <<>>
  /\ pc = "filter"
  /\ filteredClassInfos = <<>>
  /\ cur = 0
  /\ inheritingClass = Nullopt
  /\ stack = <<>>
  /\ visited = {}
  /\ merged = <<>>
  /\ resolved = <<>>
  /\ fnArgs = Nullopt
  /\ fnResult = Nullopt

\* The state before a function is applied on its own to the given arguments
InitApply(position, args) ==
  /\ pc = position
  /\ fnArgs = Some(args)
  /\ fnResult = Nullopt
  /\ classInfos = <<>>
  /\ status = <<>>
  /\ filteredClassInfos = <<>>
  /\ cur = 0
  /\ inheritingClass = Nullopt
  /\ stack = <<>>
  /\ visited = {}
  /\ merged = <<>>
  /\ resolved = <<>>

\* The state before createDefinitions(status, classInfos, defaultEntityColor):
\* fnArgs holds the default color and the list that createDefinitions hands
\* to resolveInheritance, fnResult will hold the definitions returned.
InitCreate(input, defaultEntityColor) ==
  /\ classInfos = input
  /\ status = <<>>
  /\ pc = "create"
  /\ filteredClassInfos = <<>>
  /\ cur = 0
  /\ inheritingClass = Nullopt
  /\ stack = <<>>
  /\ visited = {}
  /\ merged = <<>>
  /\ resolved = <<>>
  /\ fnArgs = Some([defaultEntityColor |-> defaultEntityColor, classInfos |-> <<>>])
  /\ fnResult = Nullopt

\* ------------------------------------------------------------ actions
\* createDefinitions, line 476: filterRedundantClasses(status, classInfos) is
\* evaluated as the argument of resolveInheritance.
CreateFilter ==
  /\ pc = "create"
  /\ LET f == FilterRedundantClasses(classInfos)
     IN  /\ fnArgs' = Some([fnArgs[1] EXCEPT !.classInfos = f.result])
         /\ status' = status \o f.warnings
  /\ pc' = "createFiltered"
  /\ UNCHANGED <<classInfos, filteredClassInfos, cur, inheritingClass, stack,
                 visited, merged, resolved, fnResult>>

\* resolveInheritance called by createDefinitions, line 502: the list it is
\* given is filtered again.
ResolveFilter ==
  /\ pc = "createFiltered"
  /\ LET f == FilterRedundantClasses(fnArgs[1].classInfos)
     IN  /\ filteredClassInfos' = f.result
         /\ status' = status \o f.warnings
  /\ pc' = "resolve"
  /\ UNCHANGED <<classInfos, cur, inheritingClass, stack, visited, merged, resolved,
                 fnArgs, fnResult>>

\* createDefinitions, lines 478-487: resolveInheritance has returned and a
\* definition is created for each resolved class.
CreateDefinitions ==
  /\ pc = "resolve"
  /\ Pending = {}
  /\ HasValue(fnArgs)
  /\ fnResult' = Some(CreateLoop(resolved, fnArgs[1].defaultEntityColor, 1, <<>>))
  /\ pc' = "created"
  /\ UNCHANGED <<callVars, fnArgs>>

\* resolveInheritance(status, classInfos), line 502: the filter runs first.
Filter ==
  /\ pc = "filter"
  /\ LET f == FilterRedundantClasses(classInfos)
     IN  /\ filteredClassInfos' = f.result
         /\ status' = status \o f.warnings
  /\ pc' = "resolve"
  /\ UNCHANGED <<classInfos, cur, inheritingClass, stack, visited, merged, resolved,
                 fnArgs, fnResult>>

\* The transform view reaches the next class that is not a BaseClass and
\* calls resolveInheritance(status, c, findClassInfos): the class is copied,
\* visited starts empty, findSuperClassesAndInheritFrom is entered with the
\* copy as classWithSuperClasses.
BeginResolve ==
  /\ pc = "resolve"
  /\ Pending # {}
  /\ LET j == Min(Pending)
     IN  /\ cur' = j
         /\ inheritingClass' = Some(filteredClassInfos[j])
         /\ stack' = <<Frame(filteredClassInfos[j].location, 1)>>
  /\ visited' = {}
  /\ merged' = <<>>
  /\ pc' = "walk"
  /\ UNCHANGED <<classInfos, status, filteredClassInfos, resolved,
                 fnArgs, fnResult>>

\* Mutant of InheritFromAndRecurse: inheritAttributes is called before the
\* visited check, so a cyclic edge still merges.
InheritFromAndRecurseMergesOnCycle ==
  /\ pc = "walk"
  /\ Top.next <= Len(ClassAt(Top.loc).superClasses)
  /\ LET classWithSuperClasses == ClassAt(Top.loc)
         nextSuperClassName == classWithSuperClasses.superClasses[Top.next]
         nextSuperClass ==
           SelectSuperClass(FindClassInfos(filteredClassInfos, nextSuperClassName),
                            inheritingClass[1].type)
         advanced == [stack EXCEPT ![Len(stack)].next = @ + 1]
     IN  IF ~HasValue(nextSuperClass)
         THEN /\ status' = Append(status,
                     Error(classWithSuperClasses.location, "NoMatch", nextSuperClassName))
              /\ stack' = advanced
              /\ UNCHANGED <<inheritingClass, visited, merged>>
         ELSE /\ inheritingClass' =
                   Some(InheritAttributes(inheritingClass[1], nextSuperClass[1]))
              /\ merged' = Append(merged, nextSuperClass[1].location)
              /\ IF nextSuperClass[1].name \notin visited
                 THEN /\ visited' = visited \cup {nextSuperClass[1].name}
                      /\ stack' = Append(advanced, Frame(nextSuperClass[1].location, 1))
                      /\ UNCHANGED status
                 ELSE /\ status' = Append(status,
                             Error(inheritingClass[1].location, "Cycle",
                                   nextSuperClass[1].name))
                      /\ stack' = advanced
                      /\ UNCHANGED visited
  /\ UNCHANGED <<classInfos, pc, filteredClassInfos, cur, resolved,
                 fnArgs, fnResult>>

\* Mutant of InheritFromAndRecurse: after a super class name without a match
\* the remaining super classes of the same class are not processed.
InheritFromAndRecurseStopsOnNoMatch ==
  /\ pc = "walk"
  /\ Top.next <= Len(ClassAt(Top.loc).superClasses)
  /\ LET classWithSuperClasses == ClassAt(Top.loc)
         nextSuperClassName == classWithSuperClasses.superClasses[Top.next]
         nextSuperClass ==
           SelectSuperClass(FindClassInfos(filteredClassInfos, nextSuperClassName),
                            inheritingClass[1].type)
         advanced == [stack EXCEPT ![Len(stack)].next = @ + 1]
     IN  IF ~HasValue(nextSuperClass)
         THEN /\ status' = Append(status,
                     Error(classWithSuperClasses.location, "NoMatch", nextSuperClassName))
              /\ stack' = [stack EXCEPT ![Len(stack)].next =
                             Len(classWithSuperClasses.superClasses) + 1]
              /\ UNCHANGED <<inheritingClass, visited, merged>>
         ELSE IF nextSuperClass[1].name \notin visited
         THEN /\ visited' = visited \cup {nextSuperClass[1].name}
              /\ inheritingClass' =
                   Some(InheritAttributes(inheritingClass[1], nextSuperClass[1]))
              /\ merged' = Append(merged, nextSuperClass[1].location)
              /\ stack' = Append(advanced, Frame(nextSuperClass[1].location, 1))
              /\ UNCHANGED status
         ELSE /\ status' = Append(status,
                     Error(inheritingClass[1].location, "Cycle", nextSuperClass[1].name))
              /\ stack' = advanced
              /\ UNCHANGED <<inheritingClass, visited, merged>>
  /\ UNCHANGED <<classInfos, pc, filteredClassInfos, cur, resolved,
                 fnArgs, fnResult>>

\* Mutant of InheritFromAndRecurse: an edge to a class that is in visited is
\* not handled, the walk does not get past it.
InheritFromAndRecurseStallsOnCycle ==
  /\ pc = "walk"
  /\ Top.next <= Len(ClassAt(Top.loc).superClasses)
  /\ LET classWithSuperClasses == ClassAt(Top.loc)
         nextSuperClassName == classWithSuperClasses.superClasses[Top.next]
         nextSuperClass ==
           SelectSuperClass(FindClassInfos(filteredClassInfos, nextSuperClassName),
                            inheritingClass[1].type)
         advanced == [stack EXCEPT ![Len(stack)].next = @ + 1]
     IN  IF ~HasValue(nextSuperClass)
         THEN /\ status' = Append(status,
                     Error(classWithSuperClasses.location, "NoMatch", nextSuperClassName))
              /\ stack' = advanced
              /\ UNCHANGED <<inheritingClass, visited, merged>>
         ELSE /\ nextSuperClass[1].name \notin visited
              /\ visited' = visited \cup {nextSuperClass[1].name}
              /\ inheritingClass' =
                   Some(InheritAttributes(inheritingClass[1], nextSuperClass[1]))
              /\ merged' = Append(merged, nextSuperClass[1].location)
              /\ stack' = Append(advanced, Frame(nextSuperClass[1].location, 1))
              /\ UNCHANGED status
  /\ UNCHANGED <<classInfos, pc, filteredClassInfos, cur, resolved,
                 fnArgs, fnResult>>

\* One iteration of the loop of findSuperClassesAndInheritFrom (lines
\* 393-406) with the entry of inheritFromAndRecurse (lines 292-304).
InheritFromAndRecurse ==
  /\ pc = "walk"
  /\ Top.next <= Len(ClassAt(Top.loc).superClasses)
  /\ LET classWithSuperClasses == ClassAt(Top.loc)
         nextSuperClassName == classWithSuperClasses.superClasses[Top.next]
         nextSuperClass ==
           SelectSuperClass(FindClassInfos(filteredClassInfos, nextSuperClassName),
                            inheritingClass[1].type)
         advanced == [stack EXCEPT ![Len(stack)].next = @ + 1]
     IN  IF ~HasValue(nextSuperClass)
         THEN /\ status' = Append(status,
                     Error(classWithSuperClasses.location, "NoMatch", nextSuperClassName))
              /\ stack' = advanced
              /\ UNCHANGED <<inheritingClass, visited, merged>>
         ELSE IF nextSuperClass[1].name \notin visited
         THEN /\ visited' = visited \cup {nextSuperClass[1].name}
              /\ inheritingClass' =
                   Some(InheritAttributes(inheritingClass[1], nextSuperClass[1]))
              /\ merged' = Append(merged, nextSuperClass[1].location)
              /\ stack' = Append(advanced, Frame(nextSuperClass[1].location, 1))
              /\ UNCHANGED status
         ELSE /\ status' = Append(status,
                     Error(inheritingClass[1].location, "Cycle", nextSuperClass[1].name))
              /\ stack' = advanced
              /\ UNCHANGED <<inheritingClass, visited, merged>>
  /\ UNCHANGED <<classInfos, pc, filteredClassInfos, cur, resolved,
                 fnArgs, fnResult>>

\* Mutant of Return: the super class's name is not erased from visited.
ReturnKeepsVisited ==
  /\ pc = "walk"
  /\ Len(stack) > 1
  /\ Top.next > Len(ClassAt(Top.loc).superClasses)
  /\ stack' = Pop(stack)
  /\ UNCHANGED <<classInfos, status, pc, filteredClassInfos, cur, inheritingClass,
                 visited, merged, resolved, fnArgs, fnResult>>

\* findSuperClassesAndInheritFrom returns into inheritFromAndRecurse, which
\* erases the super class's name from visited (line 298) and returns.
Return ==
  /\ pc = "walk"
  /\ Len(stack) > 1
  /\ Top.next > Len(ClassAt(Top.loc).superClasses)
  /\ visited' = visited \ {ClassAt(Top.loc).name}
  /\ stack' = Pop(stack)
  /\ UNCHANGED <<classInfos, status, pc, filteredClassInfos, cur, inheritingClass,
                 merged, resolved,
                 fnArgs, fnResult>>

\* The outermost findSuperClassesAndInheritFrom returns: the copy is the
\* result of resolveInheritance(status, c, findClassInfos) (line 434).
EndResolve ==
  /\ pc = "walk"
  /\ Len(stack) = 1
  /\ Top.next > Len(ClassAt(Top.loc).superClasses)
  /\ resolved' = Append(resolved, inheritingClass[1])
  /\ stack' = <<>>
  /\ pc' = "resolve"
  /\ UNCHANGED <<classInfos, status, filteredClassInfos, cur, inheritingClass,
                 visited, merged,
                 fnArgs, fnResult>>

\* selectSuperClass applied on its own to a candidate list and the type of
\* the inheriting class.
ApplySelectSuperClass ==
  /\ pc = "select"
  /\ fnResult' = Some(SelectSuperClass(fnArgs[1].candidates, fnArgs[1].type))
  /\ pc' = "selected"
  /\ UNCHANGED <<callVars, fnArgs>>

\* filterRedundantClasses applied on its own to an input list.
ApplyFilterRedundantClasses ==
  /\ pc = "filterOnly"
  /\ fnResult' = Some(FilterRedundantClasses(fnArgs[1]))
  /\ pc' = "filtered"
  /\ UNCHANGED <<callVars, fnArgs>>

\* The property loop of inheritAttributes, with mergeAttributes, applied on
\* its own to the property lists of an inheriting and a super class.
ApplyInheritProperties ==
  /\ pc = "inherit"
  /\ fnResult' = Some(InheritProperties(fnArgs[1].propertyDefinitions,
                                        fnArgs[1].superDefinitions, 1))
  /\ pc' = "inherited"
  /\ UNCHANGED <<callVars, fnArgs>>

Next ==
  \/ Filter
  \/ BeginResolve
  \/ InheritFromAndRecurse
  \/ Return
  \/ EndResolve

\* ------------------------------------------------------------ inputs
ClassNames == <<"A", "B", "C", "D", "E", "F">>
Missing == "Z"     \* a name no class of a hierarchy input has

\* All sequences over S of length at most n
RECURSIVE SeqsUpTo(_, _)
SeqsUpTo(S, n) ==
  IF n = 0 THEN {<<>>}
  ELSE LET shorter == SeqsUpTo(S, n - 1)
       IN  shorter \cup {Append(q, x) : q \in {r \in shorter : Len(r) = n - 1}, x \in S}

RECURSIVE SumLen(_, _)
SumLen(f, n) == IF n = 0 THEN 0 ELSE Len(f[n]) + SumLen(f, n - 1)

\* The super class declarations of n classes reached by declaring up to k
\* more super classes: each class declares at most MaxSupers names, each the
\* name of one of the classes or the missing name.
RECURSIVE Declarations(_, _)
Declarations(n, k) ==
  IF k = 0 THEN {[i \in 1..n |-> <<>>]}
  ELSE LET fewer == Declarations(n, k - 1)
           targets == {ClassNames[i] : i \in 1..n} \cup {Missing}
       IN  fewer \cup
           {[g EXCEPT ![i] = Append(@, t)] :
              g \in {h \in fewer : SumLen(h, n) = k - 1},
              i \in 1..n, t \in targets} 

\* The classes that the classes of S reach in at most k steps
RECURSIVE ReachFrom(_, _, _, _)
ReachFrom(g, n, S, k) ==
  IF k = 0 THEN S
  ELSE ReachFrom(g, n,
         S \cup {j \in 1..n : \E i \in S : \E p \in 1..Len(g[i]) :
                                g[i][p] = ClassNames[j]},
         k - 1)

\* The hierarchies of n classes named ClassNames[1..n]: at most maxEdges
\* super class declarations, at most MaxSupers in one class, and every class
\* takes part in the resolution of the first one.
Hierarchies(n, maxEdges) ==
  {g \in Declarations(n, maxEdges) :
     /\ \A i \in 1..n : Len(g[i]) <= MaxSupers
     /\ ReachFrom(g, n, {1}, n) = 1..n}

\* The optional scalar attributes a class may set itself
ScalarFields == {"description", "color", "size"}

\* Which class sets which of the given fields: at most MaxAttrs settings
AttrChoices(n, fields) ==
  {a \in SUBSET ((1..n) \X fields) : Cardinality(a) <= MaxAttrs}

\* The value class i gives a field it sets: its own location, so that the
\* origin of every resolved value can be told.
OwnValue(a, i, field) == IF <<i, field>> \in a THEN Some(i) ELSE Nullopt

\* The model or decal definition class i declares: one expression, its own.
OwnDefinition(a, i, field) == IF <<i, field>> \in a THEN Some(<<i>>) ELSE Nullopt

NoProperties(n) == [i \in 1..n |-> <<>>]

\* A hierarchy input: the first class is a PointClass, the others are the
\* BaseClasses it may inherit from; all names differ. g gives the super
\* class declarations, a the optional attributes set, p the properties.
HierarchyInput(n, g, a, p) ==
  [i \in 1..n |->
     ClassInfo(ClassNames[i], IF i = 1 THEN PointClass ELSE BaseClass, g[i],
               OwnValue(a, i, "description"), OwnValue(a, i, "color"),
               OwnValue(a, i, "size"), p[i],
               OwnDefinition(a, i, "modelDefinition"),
               OwnDefinition(a, i, "decalDefinition"),
               i)]

\* Hierarchies whose classes set description, color and size
Init ==
  \E n \in 1..MaxClasses : \E g \in Hierarchies(n, MaxEdges) :
    \E a \in AttrChoices(n, ScalarFields) :
      InitWith(HierarchyInput(n, g, a, NoProperties(n)))

Spec == Init /\ [][Next]_vars

\* Deeper hierarchies, in which any set of classes sets one scalar field
InitDeep ==
  \E n \in 1..MaxDeepClasses : \E g \in Hierarchies(n, MaxDeepEdges) :
    \E field \in ScalarFields : \E setters \in SUBSET (1..n) :
      InitWith(HierarchyInput(n, g, setters \X {field}, NoProperties(n)))

SpecDeep == InitDeep /\ [][Next]_vars

\* Hierarchies in which any class may declare a model definition, a decal
\* definition, or both
DefinitionFields == {"modelDefinition", "decalDefinition"}

InitModel ==
  \E n \in 1..MaxClasses : \E g \in Hierarchies(n, MaxEdges) :
    \E a \in SUBSET ((1..n) \X DefinitionFields) :
      InitWith(HierarchyInput(n, g, a, NoProperties(n)))

SpecModel == InitModel /\ [][Next]_vars

\* Option values of spawnflags definitions: the lowest bits, a value that is
\* no single bit, the highest of the merged bits and the bit above it
OptionValues == {1, 2, 3, Pow2(NumFlagBits - 1), Pow2(NumFlagBits)}

\* The options of one side: any values in any order, a value repeated too;
\* the descriptions tell the side and the position of an option.
OptionsOf(side, values) ==
  [k \in DOMAIN values |-> FlagOption(values[k], side, k, side = "class")]

\* An inheriting class's property list, its spawnflags first or after another
\* property, and a super class's list of one spawnflags definition; each
\* spawnflags is flags-typed or string-typed.
MergeInputs ==
  {[propertyDefinitions |->
      lead \o <<PropertyDefinition(Spawnflags, classType,
                                   OptionsOf("class", classValues), 1)>>,
    superDefinitions |->
      <<PropertyDefinition(Spawnflags, superType,
                           OptionsOf("super", superValues), 2)>>] :
     lead \in {<<>>, <<PropertyDefinition("other", StringProperty, <<>>, 3)>>},
     classType \in {FlagsProperty, StringProperty},
     superType \in {FlagsProperty, StringProperty},
     classValues \in SeqsUpTo(OptionValues, MaxOptions),
     superValues \in SeqsUpTo(OptionValues, MaxOptions)}

InitMerge == \E args \in MergeInputs : InitApply("inherit", args)

SpecMerge == InitMerge /\ [][ApplyInheritProperties]_vars

\* Overloaded names: every class has one of two names and any type, and
\* declares at most one super class, by one of the two names.
OverloadNames == {"A", "B"}

OverloadInputs ==
  UNION {[1..n -> [name : OverloadNames, type : ClassTypes,
                    superClasses : SeqsUpTo(OverloadNames, 1)]] :
           n \in 1..MaxClasses}

OverloadInput(o) ==
  [i \in DOMAIN o |->
     ClassInfo(o[i].name, o[i].type, o[i].superClasses, Some(i), Nullopt, Nullopt,
               <<>>, Nullopt, Nullopt, i)]

\* The overloaded inputs with a model definition in every class, so that
\* every merge shows in the resolved record
SharedInput(o) ==
  [i \in DOMAIN o |->
     ClassInfo(o[i].name, o[i].type, o[i].superClasses, Some(i), Nullopt, Nullopt,
               <<>>, Some(<<i>>), Nullopt, i)]

InitShared == \E o \in OverloadInputs : InitWith(SharedInput(o))

SpecShared == InitShared /\ [][Next]_vars

\* The hierarchies of Init (several super classes, missing names, cycles)
\* and the overloaded inputs (duplicates, redundant classes) together
InitBatch == Init \/ InitShared

SpecBatch == InitBatch /\ [][Next]_vars

\* The inputs of createDefinitions: the hierarchies of Init with a PointClass
\* or a BrushClass as first class, and the overloaded inputs; the caller
\* gives one of two default colors (the colors that classes declare are
\* positive numbers)
DefaultColors == {0 - 1, 0 - 2}

WithType(input, type) == [input EXCEPT ![1].type = type]

InitCreateDefinitions ==
  \E color \in DefaultColors :
    \/ \E n \in 1..MaxClasses : \E g \in Hierarchies(n, MaxEdges) :
         \E a \in AttrChoices(n, ScalarFields) :
           \E type \in {PointClass, BrushClass} :
             InitCreate(WithType(HierarchyInput(n, g, a, NoProperties(n)), type),
                        color)
    \/ \E o \in OverloadInputs : InitCreate(SharedInput(o), color)

NextCreate ==
  \/ CreateFilter
  \/ ResolveFilter
  \/ BeginResolve
  \/ InheritFromAndRecurse
  \/ Return
  \/ EndResolve
  \/ CreateDefinitions

SpecCreate == InitCreateDefinitions /\ [][NextCreate]_vars

\* The call runs in one thread: a step that can be taken is taken
SpecBatchFair == InitBatch /\ [][Next]_vars /\ WF_vars(Next)

\* Input lists of the filter: up to MaxFilterLen records of any of the two
\* names and any type, in any order.
FilterInputs ==
  UNION {[1..n -> [name : OverloadNames, type : ClassTypes,
                    superClasses : {<<>>}]] :
           n \in 0..MaxFilterLen}

InitFilter == \E o \in FilterInputs : InitApply("filterOnly", OverloadInput(o))

SpecFilter == InitFilter /\ [][ApplyFilterRedundantClasses]_vars

\* Candidate lists as findClassInfos may return them for any lookup: records
\* of one name, of any types, also with a type repeated.
CandidateLists ==
  {[k \in DOMAIN types |->
      ClassInfo("A", types[k], <<>>, Nullopt, Nullopt, Nullopt, <<>>, Nullopt,
                Nullopt, k)] :
     types \in SeqsUpTo(ClassTypes, MaxCandidates)}

\* selectSuperClass on every candidate list and inheriting type, and the
\* resolution of the overloaded inputs
InitSelect ==
  \/ \E c \in CandidateLists : \E t \in ClassTypes :
       InitApply("select", [candidates |-> c, type |-> t])
  \/ \E o \in OverloadInputs : InitWith(OverloadInput(o))

NextSelect == Next \/ ApplySelectSuperClass

SpecSelect == InitSelect /\ [][NextSelect]_vars

\* The property definitions class i may declare: a flags-typed spawnflags
\* with an option for bit 2^i and one for bit 1, in that order; a
\* string-typed spawnflags; a string-typed property "key". info is i.
OwnSpawnflags(i) ==
  PropertyDefinition(Spawnflags, FlagsProperty,
    <<FlagOption(Pow2(i), i, i, FALSE), FlagOption(1, i, i, TRUE)>>, i)

PropertyUniverse(i) ==
  {OwnSpawnflags(i),
   PropertyDefinition(Spawnflags, StringProperty, <<>>, i),
   PropertyDefinition("key", StringProperty, <<>>, i)}

\* The property lists of n classes reached by declaring up to k more
\* property definitions.
RECURSIVE PropertyChoices(_, _)
PropertyChoices(n, k) ==
  IF k = 0 THEN {NoProperties(n)}
  ELSE LET fewer == PropertyChoices(n, k - 1)
       IN  fewer \cup
           {[p EXCEPT ![i] = Append(@, d)] :
              p \in {q \in fewer : SumLen(q, n) = k - 1},
              i \in 1..n, d \in UNION {PropertyUniverse(j) : j \in 1..n}}

\* Here a class declares only definitions of its own (info = its location)
OwnPropertyChoices(n) ==
  {p \in PropertyChoices(n, MaxProps) :
     \A i \in 1..n : \A k \in 1..Len(p[i]) : p[i][k].info = i}

\* Hierarchies whose classes declare property definitions; every class sets
\* description, color and size. The scalar hierarchies of Init are included.
InitProps ==
  \/ Init
  \/ \E n \in 1..MaxClasses : \E g \in Hierarchies(n, MaxEdges) :
       \E p \in OwnPropertyChoices(n) :
         InitWith(HierarchyInput(n, g, (1..n) \X ScalarFields, p))

SpecProps == InitProps /\ [][Next]_vars

\* Property lists with unique keys: a class declares up to MaxKeys properties
\* of different keys, a flags-typed spawnflags among them or not, in any order
PropertyKeys == {Spawnflags, "a", "b"}

KeyedDefinition(key, i) ==
  IF key = Spawnflags THEN OwnSpawnflags(i)
  ELSE PropertyDefinition(key, StringProperty, <<>>, i)

UniqueKeyLists ==
  {keys \in SeqsUpTo(PropertyKeys, MaxKeys) :
     \A j, k \in DOMAIN keys : j # k => keys[j] # keys[k]}

InitKeys ==
  \E n \in 1..MaxClasses : \E g \in Hierarchies(n, MaxEdges) :
    \E keys \in [1..n -> UniqueKeyLists] :
      InitWith(HierarchyInput(n, g, {},
                 [i \in 1..n |->
                    [k \in DOMAIN keys[i] |-> KeyedDefinition(keys[i][k], i)]]))

SpecKeys == InitKeys /\ [][Next]_vars

\* ---------------------------------------------------------------- claims
Last(seq) == seq[Len(seq)]

\* The edge the walk is about to follow, and the class selected for it
EdgePending == pc = "walk" /\ Top.next <= Len(ClassAt(Top.loc).superClasses)
PendingName == ClassAt(Top.loc).superClasses[Top.next]
PendingSelection ==
  SelectSuperClass(FindClassInfos(filteredClassInfos, PendingName),
                   inheritingClass[1].type)

\* C1: whenever the super class selected for an edge has a name that is in
\* visited, following the edge reports exactly one cycle error, merges
\* nothing into the inheriting class, does not enter the super class (no
\* frame is pushed, visited is unchanged), and the loop moves on to the next
\* declared super class of the same frame.
C1_CycleEdgeSkipped ==
  [][(/\ EdgePending
      /\ HasValue(PendingSelection)
      /\ PendingSelection[1].name \in visited)
     => (/\ status' = Append(status,
              Error(inheritingClass[1].location, "Cycle", PendingSelection[1].name))
         /\ inheritingClass' = inheritingClass
         /\ merged' = merged
         /\ visited' = visited
         /\ stack' = [stack EXCEPT ![Len(stack)].next = @ + 1])]_vars

\* C1 witness: a cycle error has just been reported while the walk goes on
C1_Witness ==
  /\ pc = "walk"
  /\ status # <<>>
  /\ Last(status).kind = "Cycle"
  /\ Top.next > 1


\* The class selected for a super class name in the resolution of a class of
\* the given type
Selected(name, type) ==
  SelectSuperClass(FindClassInfos(filteredClassInfos, name), type)

\* The depth-first pre-order of the hierarchy of the class at loc: the class,
\* then for each declared super class in order the pre-order of the class
\* selected for it, unless none is selected or its name is on the path.
RECURSIVE PreOrderOf(_, _, _), PreOrderSupers(_, _, _, _)
PreOrderOf(loc, path, type) ==
  <<loc>> \o PreOrderSupers(loc, 1, path, type)

PreOrderSupers(loc, i, path, type) ==
  IF i > Len(ClassAt(loc).superClasses) THEN <<>>
  ELSE LET sel == Selected(ClassAt(loc).superClasses[i], type)
           here == IF ~HasValue(sel) \/ sel[1].name \in path THEN <<>>
                   ELSE PreOrderOf(sel[1].location, path \cup {sel[1].name}, type)
       IN  here \o PreOrderSupers(loc, i + 1, path, type)

\* The pre-order of the class whose resolution has just ended
RootLoc == filteredClassInfos[cur].location
RootPreOrder ==
  PreOrderOf(RootLoc, {ClassAt(RootLoc).name}, ClassAt(RootLoc).type)

JustResolved == pc = "resolve" /\ resolved # <<>>

\* The value of the first class of an order that sets the field, if any
FirstSetting(order, field) ==
  LET setters == {k \in DOMAIN order : HasValue(ClassAt(order[k])[field])}
  IN  IF setters = {} THEN Nullopt ELSE ClassAt(order[Min(setters)])[field]

\* C2: the resolved description, color and size of a class are those of the
\* first class in depth-first pre-order of its hierarchy that sets them, and
\* unset only if no class of that order sets them.
C2_FirstInPreOrderWins ==
  JustResolved =>
    \A field \in ScalarFields :
      Last(resolved)[field] = FirstSetting(RootPreOrder, field)


IsFlagsSpawnflags(def) == def.key = Spawnflags /\ def.type = FlagsProperty

DeclaresFlagsSpawnflags(loc) ==
  \E k \in DOMAIN ClassAt(loc).propertyDefinitions :
    IsFlagsSpawnflags(ClassAt(loc).propertyDefinitions[k])

MergedLocs == {merged[k] : k \in DOMAIN merged}

\* C3: resolution never overwrites what the inheriting class declares itself:
\* a description, color or size it sets is the resolved one, and each of its
\* own property definitions is at its position, unmodified, in the resolved
\* record, unless it is a flags-typed spawnflags and a merged super class
\* declares a flags-typed spawnflags too.
C3_OwnAttributesKept ==
  JustResolved =>
    LET own == ClassAt(RootLoc)
        res == Last(resolved)
    IN  /\ \A field \in ScalarFields :
             HasValue(own[field]) => res[field] = own[field]
        /\ Len(res.propertyDefinitions) >= Len(own.propertyDefinitions)
        /\ \A k \in DOMAIN own.propertyDefinitions :
             \/ res.propertyDefinitions[k] = own.propertyDefinitions[k]
             \/ /\ IsFlagsSpawnflags(own.propertyDefinitions[k])
                /\ \E loc \in MergedLocs : DeclaresFlagsSpawnflags(loc)

\* C3 witness: the class sets a description and declares a property, a merged
\* super class other than itself sets a description and declares a property
\* of the same key, and the class's own ones are in the resolved record.
C3_Witness ==
  /\ JustResolved
  /\ \E loc \in MergedLocs \ {RootLoc} :
       /\ HasValue(ClassAt(RootLoc).description)
       /\ HasValue(ClassAt(loc).description)
       /\ Last(resolved).description = ClassAt(RootLoc).description
       /\ \E k \in DOMAIN ClassAt(RootLoc).propertyDefinitions :
            \E j \in DOMAIN ClassAt(loc).propertyDefinitions :
              /\ ClassAt(loc).propertyDefinitions[j].key =
                   ClassAt(RootLoc).propertyDefinitions[k].key
              /\ ~IsFlagsSpawnflags(ClassAt(RootLoc).propertyDefinitions[k])
              /\ Last(resolved).propertyDefinitions[k] =
                   ClassAt(RootLoc).propertyDefinitions[k]


\* The candidates of a list that have the given type
OfType(candidates, type) ==
  {k \in DOMAIN candidates : candidates[k].type = type}

\* What the selection rules give for a candidate list and an inheriting type
SelectionRule(candidates, type) ==
  IF Len(candidates) = 1 THEN Some(candidates[1])
  ELSE IF Len(candidates) = 0 THEN Nullopt
  ELSE IF OfType(candidates, type) # {}
  THEN Some(candidates[Min(OfType(candidates, type))])
  ELSE IF type # BaseClass /\ OfType(candidates, BaseClass) # {}
  THEN Some(candidates[Min(OfType(candidates, BaseClass))])
  ELSE Nullopt

\* C4: selectSuperClass returns the sole candidate; else among several the
\* one of the inheriting class's type; else, for an inheriting class that is
\* no BaseClass, the BaseClass candidate; else none. In a resolution the type
\* compared is the type of the class being resolved, whichever class declares
\* the name: a merged class found among several candidates has the type of
\* the resolved class, and one name never yields two different classes.
C4_Selection ==
  /\ pc = "selected" =>
       fnResult[1] = SelectionRule(fnArgs[1].candidates, fnArgs[1].type)
  /\ pc = "walk" =>
       \A loc \in MergedLocs :
         /\ Len(FindClassInfos(filteredClassInfos, ClassAt(loc).name)) > 1
              => ClassAt(loc).type = inheritingClass[1].type
         /\ \A other \in MergedLocs :
              ClassAt(other).name = ClassAt(loc).name => other = loc

\* C4 witness: among several candidates, a BaseClass listed before one of the
\* inheriting class's type, and the latter is selected.
C4_Witness ==
  /\ pc = "selected"
  /\ Len(fnArgs[1].candidates) > 1
  /\ fnArgs[1].candidates[1].type = BaseClass
  /\ fnArgs[1].type # BaseClass
  /\ HasValue(fnResult[1])
  /\ fnResult[1][1].type = fnArgs[1].type

\* Reached as well: a class merged for a name with several candidates that
\* a class of another type than the resolved class declares.
C4_IntermediateCase ==
  /\ pc = "walk"
  /\ Len(stack) > 2
  /\ ClassAt(stack[Len(stack) - 1].loc).type # inheritingClass[1].type
  /\ Len(FindClassInfos(filteredClassInfos, ClassAt(Top.loc).name)) > 1


\* C5: the output of filterRedundantClasses holds no two records of the same
\* name and type, and no record beside a BaseClass of its name; a BaseClass
\* it holds is the first input record of its name.
C5_FilteredUnique ==
  pc = "filtered" =>
    LET input == fnArgs[1]
        out == fnResult[1].result
    IN  /\ \A i, j \in DOMAIN out :
             (i # j /\ out[i].name = out[j].name)
               => /\ out[i].type # out[j].type
                  /\ out[i].type # BaseClass
        /\ \A i \in DOMAIN out :
             out[i].type = BaseClass
               => \A k \in 1..(out[i].location - 1) : input[k].name # out[i].name

\* C5 witness: the output holds a PointClass and a BrushClass of one name and
\* a BaseClass of another, and a BaseClass of the first name was dropped.
C5_Witness ==
  /\ pc = "filtered"
  /\ \E i, j, b \in DOMAIN fnResult[1].result :
       /\ fnResult[1].result[i].name = fnResult[1].result[j].name
       /\ fnResult[1].result[i].type = PointClass
       /\ fnResult[1].result[j].type = BrushClass
       /\ fnResult[1].result[b].type = BaseClass
       /\ \E k \in DOMAIN fnArgs[1] :
            /\ fnArgs[1][k].type = BaseClass
            /\ fnArgs[1][k].name = fnResult[1].result[i].name


\* The super classes selected for the declarations of the class at loc, as a
\* sequence in declaration order (0 where none is selected)
SelectedSupers(loc, type) ==
  [i \in DOMAIN ClassAt(loc).superClasses |->
     LET sel == Selected(ClassAt(loc).superClasses[i], type)
     IN  IF HasValue(sel) THEN sel[1].location ELSE 0]

Successors(loc, type) ==
  {SelectedSupers(loc, type)[i] : i \in DOMAIN SelectedSupers(loc, type)} \ {0}

\* The classes reached from those of S by one or more selected edges
RECURSIVE ReachedIn(_, _, _)
ReachedIn(S, type, k) ==
  LET step == UNION {Successors(loc, type) : loc \in S}
  IN  IF k = 0 THEN {} ELSE step \cup ReachedIn(step, type, k - 1)

Descendants(loc, type) == ReachedIn({loc}, type, Len(classInfos))

\* Some path of selected super classes from the resolved class comes back to
\* a class it has passed
HierarchyHasCycle(root, type) ==
  \E loc \in {root} \cup Descendants(root, type) : loc \in Descendants(loc, type)

\* The number of paths of selected edges from one class to another, in an
\* acyclic hierarchy
RECURSIVE NumPaths(_, _, _), NumPathsVia(_, _, _, _)
NumPaths(from, to, type) ==
  IF from = to THEN 1 ELSE NumPathsVia(from, to, type, 1)

NumPathsVia(from, to, type, i) ==
  IF i > Len(SelectedSupers(from, type)) THEN 0
  ELSE (IF SelectedSupers(from, type)[i] = 0 THEN 0
        ELSE NumPaths(SelectedSupers(from, type)[i], to, type))
       + NumPathsVia(from, to, type, i + 1)

CycleErrors(loc) ==
  {k \in DOMAIN status : status[k].kind = "Cycle" /\ status[k].loc = loc}

TimesMerged(loc) == Cardinality({k \in DOMAIN merged : merged[k] = loc})

\* C6: the resolution of a class reports a cycle error if and only if some
\* path of selected super classes from it passes a class twice; in an acyclic
\* hierarchy no cycle error is reported and every class is merged once for
\* each path that leads to it, a shared ancestor once per path.
C6_CycleIffBackEdge ==
  JustResolved =>
    LET root == RootLoc
        type == ClassAt(root).type
    IN  /\ CycleErrors(root) # {} <=> HierarchyHasCycle(root, type)
        /\ ~HierarchyHasCycle(root, type) =>
             \A loc \in DOMAIN classInfos \ {root} :
               TimesMerged(loc) = NumPaths(root, loc, type)

\* C6 witness: an acyclic hierarchy in which an ancestor is reached on two
\* paths through different classes; it was merged twice, without an error.
C6_Witness ==
  /\ JustResolved
  /\ ~HierarchyHasCycle(RootLoc, ClassAt(RootLoc).type)
  /\ CycleErrors(RootLoc) = {}
  /\ \E loc \in DOMAIN classInfos :
       /\ TimesMerged(loc) = 2
       /\ \E via \in Successors(RootLoc, ClassAt(RootLoc).type) \ {loc} :
            loc \in Successors(via, ClassAt(RootLoc).type)


\* The attributes of a class info that resolution may change
Attributes(c) ==
  [description |-> c.description, color |-> c.color, size |-> c.size,
   propertyDefinitions |-> c.propertyDefinitions,
   modelDefinition |-> c.modelDefinition, decalDefinition |-> c.decalDefinition]

\* The class at loc after the merge, one after the other, of the classes of
\* order from its i-th on
RECURSIVE MergedInOrder(_, _, _)
MergedInOrder(c, order, i) ==
  IF i > Len(order) THEN c
  ELSE MergedInOrder(InheritAttributes(c, ClassAt(order[i])), order, i + 1)

\* The resolved class declares, among others, a super class that declares it
\* back as its only super class (A -> B -> A), and no other cycle is reached
TwoCycle(root, type) ==
  \E b \in Successors(root, type) \ {root} :
    /\ SelectedSupers(b, type) = <<root>>
    /\ Cardinality({i \in DOMAIN SelectedSupers(root, type) :
                      SelectedSupers(root, type)[i] = b}) = 1
    /\ \A c \in Successors(root, type) \ {b} :
         /\ root \notin {c} \cup Descendants(c, type)
         /\ ~HierarchyHasCycle(c, type)

\* C7: a cycle A -> B -> A yields exactly one cycle error, and the resolved
\* attributes of A are those of A merged once with B and once with each
\* class of the pre-order of the other super classes A declares.
C7_TwoCycleMergedOnce ==
  (JustResolved /\ TwoCycle(RootLoc, ClassAt(RootLoc).type)) =>
    /\ Cardinality(CycleErrors(RootLoc)) = 1
    /\ Attributes(Last(resolved)) =
         Attributes(MergedInOrder(ClassAt(RootLoc), Tail(RootPreOrder), 1))

\* The definitions, in order, that own followed by the classes of order
\* contribute to the given field
RECURSIVE Contributions(_, _, _)
Contributions(order, field, i) ==
  IF i > Len(order) THEN <<>>
  ELSE (IF HasValue(ClassAt(order[i])[field]) THEN ClassAt(order[i])[field][1]
        ELSE <<>>)
       \o Contributions(order, field, i + 1)

\* C10: the resolved model definition is absent iff neither the class nor a
\* merged super class declares one, and is otherwise the concatenation of
\* the class's own definition and those of the merged super classes, in
\* merge order, one contribution per merge; the same for the decal
\* definition.
C10_DefinitionsConcatenated ==
  JustResolved =>
    \A field \in DefinitionFields :
      LET sources == <<RootLoc>> \o merged
          declared == {k \in DOMAIN sources : HasValue(ClassAt(sources[k])[field])}
      IN  /\ HasValue(Last(resolved)[field]) <=> declared # {}
          /\ declared # {} =>
               Last(resolved)[field][1] = Contributions(sources, field, 1)

\* C10 witness: the class and two merges of super classes each contribute a
\* model definition, and a decal definition is inherited
C10_Witness ==
  /\ JustResolved
  /\ HasValue(ClassAt(RootLoc).modelDefinition)
  /\ Cardinality({k \in DOMAIN merged :
                    HasValue(ClassAt(merged[k]).modelDefinition)}) >= 2
  /\ Len(Last(resolved).modelDefinition[1]) >= 3
  /\ ~HasValue(ClassAt(RootLoc).decalDefinition)
  /\ HasValue(Last(resolved).decalDefinition)


\* The classes exactly k selected edges away from those of S
RECURSIVE ReachedAt(_, _, _)
ReachedAt(S, type, k) ==
  IF k = 0 THEN S
  ELSE ReachedAt(UNION {Successors(loc, type) : loc \in S}, type, k - 1)

\* The least number of inheritance edges from the class at root to a class of
\* its hierarchy
Distance(root, loc, type) ==
  Min({k \in 1..Len(classInfos) : loc \in ReachedAt({root}, type, k)})

\* The closer of two classes that set a field the resolved class does not set
\* gives the resolved value: the more distant one does not
CloserWins(root, field) ==
  LET type == ClassAt(root).type
      settersOf == {loc \in Descendants(root, type) : HasValue(ClassAt(loc)[field])}
  IN  ~HasValue(ClassAt(root)[field]) =>
        \A x, y \in settersOf :
          Distance(root, x, type) < Distance(root, y, type) =>
            /\ HasValue(Last(resolved)[field])
            /\ Last(resolved)[field] # ClassAt(y)[field]

\* Every class of the hierarchy declares at most one super class
IsChain(root) ==
  \A loc \in {root} \cup Descendants(root, ClassAt(root).type) :
    Len(ClassAt(loc).superClasses) <= 1

FirstOptionWith(def, value) ==
  LET at == {k \in DOMAIN def.options : def.options[k].value = value}
  IN  IF at = {} THEN Nullopt
      ELSE Some(def.options[CHOOSE k \in at : \A j \in at : k <= j])

\* The position of the spawnflags definition in the inheriting class's list
SpawnflagsAt == Len(fnArgs[1].propertyDefinitions)

BothFlagsSpawnflags ==
  /\ IsFlagsSpawnflags(fnArgs[1].propertyDefinitions[SpawnflagsAt])
  /\ IsFlagsSpawnflags(fnArgs[1].superDefinitions[1])

\* C9: when the inheriting and the super class both have a flags-typed
\* spawnflags, the merge puts a new flags definition in the place of the
\* inheriting class's: for each bit value 2^0..2^23 its option is the
\* inheriting class's option for that bit if it has one, else the super
\* class's, else none; it has no other options, and they are in ascending
\* bit order.
C9_SpawnflagsMergedPerBit ==
  (pc = "inherited" /\ BothFlagsSpawnflags) =>
    LET own == fnArgs[1].propertyDefinitions[SpawnflagsAt]
        super == fnArgs[1].superDefinitions[1]
        out == fnResult[1]
        new == out[SpawnflagsAt]
    IN  /\ Len(out) = Len(fnArgs[1].propertyDefinitions)
        /\ \A k \in DOMAIN out :
             k # SpawnflagsAt => out[k] = fnArgs[1].propertyDefinitions[k]
        /\ new.key = Spawnflags
        /\ new.type = FlagsProperty
        /\ \A i \in 0..(NumFlagBits - 1) :
             FirstOptionWith(new, Pow2(i)) =
               IF HasValue(FirstOptionWith(own, Pow2(i)))
               THEN FirstOptionWith(own, Pow2(i))
               ELSE FirstOptionWith(super, Pow2(i))
        /\ \A k \in DOMAIN new.options :
             \E i \in 0..(NumFlagBits - 1) : new.options[k].value = Pow2(i)
        /\ \A j, k \in DOMAIN new.options :
             j < k => new.options[j].value < new.options[k].value

\* C9 witness: the example of the claim (the inheriting class has an option
\* for one bit, the super class for that bit and another), with the highest
\* bit inherited as well
C9_Witness ==
  /\ pc = "inherited"
  /\ BothFlagsSpawnflags
  /\ LET own == fnArgs[1].propertyDefinitions[SpawnflagsAt]
         super == fnArgs[1].superDefinitions[1]
         new == fnResult[1][SpawnflagsAt]
     IN  /\ Len(own.options) = 1
         /\ own.options[1].value = 2
         /\ Len(super.options) = 2
         /\ super.options[1].value = 2
         /\ super.options[2].value = 1
         /\ new.options = <<super.options[2], own.options[1]>>

\* The merge drops the options whose value is not one of the 24 bits, keeps
\* one option per bit, and reaches bit 2^23
C9_DropsOtherOptions ==
  /\ pc = "inherited"
  /\ BothFlagsSpawnflags
  /\ LET own == fnArgs[1].propertyDefinitions[SpawnflagsAt]
         super == fnArgs[1].superDefinitions[1]
         new == fnResult[1][SpawnflagsAt]
     IN  /\ Len(own.options) = 1
         /\ own.options[1].value = 3
         /\ Len(super.options) = 2
         /\ super.options[1].value = Pow2(NumFlagBits)
         /\ super.options[2].value = Pow2(NumFlagBits - 1)
         /\ new.options = <<super.options[2]>>


\* The keys of a property list, in order
KeysOf(propertyDefinitions) ==
  [k \in DOMAIN propertyDefinitions |-> propertyDefinitions[k].key]

\* A sequence without the repetitions of its elements: each at its first place
RECURSIVE FirstOccurrences(_)
FirstOccurrences(seq) ==
  IF seq = <<>> THEN <<>>
  ELSE LET front == FirstOccurrences(SubSeq(seq, 1, Len(seq) - 1))
       IN  IF \E k \in DOMAIN front : front[k] = Last(seq) THEN front
           ELSE Append(front, Last(seq))

\* The keys of the property lists of the classes of an order, one list after
\* the other
RECURSIVE KeysMet(_, _)
KeysMet(order, i) ==
  IF i > Len(order) THEN <<>>
  ELSE KeysOf(ClassAt(order[i]).propertyDefinitions) \o KeysMet(order, i + 1)

UniqueKeys ==
  \A loc \in DOMAIN classInfos :
    \A j, k \in DOMAIN ClassAt(loc).propertyDefinitions :
      j # k => ClassAt(loc).propertyDefinitions[j].key #
               ClassAt(loc).propertyDefinitions[k].key

\* The property definition of the first class of an order that declares key
FirstDeclared(order, key) ==
  LET at == Min({k \in DOMAIN order :
                   \E j \in DOMAIN ClassAt(order[k]).propertyDefinitions :
                     ClassAt(order[k]).propertyDefinitions[j].key = key})
      defs == ClassAt(order[at]).propertyDefinitions
  IN  defs[Min({j \in DOMAIN defs : defs[j].key = key})]

\* C11: with unique keys in every class, the resolved property list holds the
\* class's own properties at their positions, then the inherited properties
\* of the keys it did not have, in the order in which the merges met them
\* first; no key is there twice. A property other than a merged flags-typed
\* spawnflags is the definition of the class that declared its key first.
C11_PropertyOrder ==
  (JustResolved /\ UniqueKeys) =>
    LET own == ClassAt(RootLoc).propertyDefinitions
        res == Last(resolved).propertyDefinitions
        sources == <<RootLoc>> \o merged
    IN  /\ KeysOf(res) = FirstOccurrences(KeysMet(sources, 1))
        /\ SubSeq(KeysOf(res), 1, Len(own)) = KeysOf(own)
        /\ \A j, k \in DOMAIN res : j # k => res[j].key # res[k].key
        /\ \A k \in DOMAIN res :
             ~IsFlagsSpawnflags(res[k]) => res[k] = FirstDeclared(sources, res[k].key)

\* C11 witness: the class has one property; two merged super classes declare
\* two properties each, one key in common and in different orders, and one of
\* them is merged on two paths; three keys result, each once
C11_Witness ==
  /\ JustResolved
  /\ UniqueKeys
  /\ Len(ClassAt(RootLoc).propertyDefinitions) = 1
  /\ Len(Last(resolved).propertyDefinitions) = 3
  /\ \E x, y \in MergedLocs \ {RootLoc} :
       /\ x # y
       /\ TimesMerged(y) = 2
       /\ Len(ClassAt(x).propertyDefinitions) = 2
       /\ Len(ClassAt(y).propertyDefinitions) = 2
       /\ Last(resolved).propertyDefinitions[2] = ClassAt(x).propertyDefinitions[2]
       /\ Last(resolved).propertyDefinitions[3] = ClassAt(y).propertyDefinitions[1]


\* The records of the filtered list up to the i-th that are not BaseClasses
NonBaseUpTo(i) ==
  LET NotBase(c) == c.type # BaseClass
  IN  SelectSeq(SubSeq(filteredClassInfos, 1, i), NotBase)

\* C12: resolveInheritance returns one record for every record of the
\* filtered list that is not a BaseClass, in the order of the filtered list,
\* with its name and type, and never a BaseClass; a PointClass and a
\* BrushClass of one name that both declare the same BaseClass (which has no
\* super class) are both returned, each with its own attributes merged with
\* those of the BaseClass.
C12_OneRecordPerClass ==
  pc = "resolve" =>
    LET expected == NonBaseUpTo(IF Pending = {} THEN Len(filteredClassInfos) ELSE cur)
    IN  /\ Len(resolved) = Len(expected)
        /\ \A k \in DOMAIN resolved :
             /\ resolved[k].name = expected[k].name
             /\ resolved[k].type = expected[k].type
             /\ resolved[k].location = expected[k].location
             /\ resolved[k].superClasses = expected[k].superClasses
             /\ resolved[k].type # BaseClass
        /\ \A k \in DOMAIN resolved : \A b \in DOMAIN filteredClassInfos :
             (/\ filteredClassInfos[b].type = BaseClass
              /\ filteredClassInfos[b].superClasses = <<>>
              /\ expected[k].superClasses = <<filteredClassInfos[b].name>>)
             => resolved[k] = InheritAttributes(expected[k], filteredClassInfos[b])

\* C12 witness: a PointClass and a BrushClass of one name both declare a
\* BaseClass; both are returned, each with the model definition of the
\* BaseClass after its own, and the BaseClass is not returned.
C12_Witness ==
  /\ Done
  /\ Len(filteredClassInfos) = 3
  /\ Len(resolved) = 2
  /\ resolved[1].name = resolved[2].name
  /\ {resolved[1].type, resolved[2].type} = {PointClass, BrushClass}
  /\ \E b \in DOMAIN filteredClassInfos :
       /\ filteredClassInfos[b].type = BaseClass
       /\ resolved[1].superClasses = <<filteredClassInfos[b].name>>
       /\ resolved[2].superClasses = <<filteredClassInfos[b].name>>
       /\ resolved[1].modelDefinition =
            Some(<<resolved[1].location, filteredClassInfos[b].location>>)
       /\ resolved[2].modelDefinition =
            Some(<<resolved[2].location, filteredClassInfos[b].location>>)


\* The errors reported for a name that has no match
NoMatchErrors(name) ==
  {k \in DOMAIN status : status[k].kind = "NoMatch" /\ status[k].name = name}

\* C13: a declared super class name without an acceptable candidate gives
\* exactly one 'no matching super class' error, leaves the inheriting class
\* unchanged, and the walk goes on with the next super class declared by the
\* same class; when the call returns, every record of the filtered list that
\* is not a BaseClass has an output record, whatever duplicates, redundant
\* classes, missing super classes or cycles the input has.
C13_NoMatchIsLocal ==
  /\ [][(EdgePending /\ ~HasValue(PendingSelection))
        => (/\ status' = Append(status,
                   Error(ClassAt(Top.loc).location, "NoMatch", PendingName))
            /\ inheritingClass' = inheritingClass
            /\ merged' = merged
            /\ visited' = visited
            /\ stack' = [stack EXCEPT ![Len(stack)].next = @ + 1]
            /\ resolved' = resolved
            /\ pc' = "walk")]_vars
  /\ [](Done => Len(resolved) = Len(NonBaseUpTo(Len(filteredClassInfos))))

\* C13 witness: the class declares a missing name and then a class that sets
\* an attribute: one error for the missing name, the attribute is inherited
\* and the class is returned
C13_Witness ==
  /\ Done
  /\ Len(resolved) = 1
  /\ Len(resolved[1].superClasses) = 2
  /\ resolved[1].superClasses[1] = Missing
  /\ Cardinality(NoMatchErrors(Missing)) = 1
  /\ Cardinality(DOMAIN status) = 1
  /\ \E loc \in DOMAIN classInfos :
       /\ ClassAt(loc).name = resolved[1].superClasses[2]
       /\ loc # resolved[1].location
       /\ HasValue(ClassAt(loc).description)
       /\ resolved[1].description = ClassAt(loc).description

\* A batch with a duplicate, a redundant class, a missing super class and a
\* cycle returns all its classes that are not BaseClasses
C13_MixedBatch ==
  /\ Done
  /\ \E k \in DOMAIN status : status[k].kind = "Duplicate"
  /\ \E k \in DOMAIN status : status[k].kind = "NoMatch"
  /\ Len(resolved) = Len(NonBaseUpTo(Len(filteredClassInfos)))
  /\ Len(resolved) >= 1

C13_CyclicBatch ==
  /\ Done
  /\ \E k \in DOMAIN status : status[k].kind = "Redundant"
  /\ \E k \in DOMAIN status : status[k].kind = "Cycle"
  /\ Len(resolved) >= 1


\* The warnings of a filter result at the location of an input record
WarningsAt(warnings, loc) == {k \in DOMAIN warnings : warnings[k].loc = loc}

\* The positions of a filter output that hold the input record i
KeptAt(out, i) == {k \in DOMAIN out : out[k].location = i}

\* C14: the output of filterRedundantClasses is a subsequence of the input,
\* in input order, of unchanged records; every input record is either kept
\* (once, without warning) or dropped with exactly one warning at its
\* location, so kept records and warnings add up to the input length; the
\* first input record of every name is kept.
C14_FilterSubsequence ==
  pc = "filtered" =>
    LET input == fnArgs[1]
        out == fnResult[1].result
        warnings == fnResult[1].warnings
    IN  /\ \A k \in DOMAIN out :
             /\ out[k].location \in DOMAIN input
             /\ out[k] = input[out[k].location]
        /\ \A j, k \in DOMAIN out : j < k => out[j].location < out[k].location
        /\ \A i \in DOMAIN input :
             \/ /\ Cardinality(KeptAt(out, i)) = 1
                /\ WarningsAt(warnings, i) = {}
             \/ /\ KeptAt(out, i) = {}
                /\ Cardinality(WarningsAt(warnings, i)) = 1
        /\ \A k \in DOMAIN warnings :
             /\ warnings[k].level = "warn"
             /\ warnings[k].loc \in DOMAIN input
             /\ warnings[k].name = input[warnings[k].loc].name
        /\ Len(out) + Len(warnings) = Len(input)
        /\ \A i \in DOMAIN input :
             (\A j \in 1..(i - 1) : input[j].name # input[i].name)
               => KeptAt(out, i) # {}

\* C14 witness: of four input records the first and the last are kept, and
\* the two between them are dropped, one as duplicate and one as redundant
C14_Witness ==
  /\ pc = "filtered"
  /\ Len(fnArgs[1]) = 4
  /\ Len(fnResult[1].result) = 2
  /\ fnResult[1].result[1].location = 1
  /\ fnResult[1].result[2].location = 4
  /\ Len(fnResult[1].warnings) = 2
  /\ {fnResult[1].warnings[k].kind : k \in {1, 2}} = {"Duplicate", "Redundant"}


\* An earlier record of the list has the name and the type of the record at loc
EarlierSame(records, input, loc) ==
  \E k \in DOMAIN records :
    /\ records[k].location < loc
    /\ records[k].name = input[loc].name
    /\ records[k].type = input[loc].type

\* An earlier record of the list has the name of the record at loc, and one
\* of the two is a BaseClass
EarlierBaseConflict(records, input, loc) ==
  \E k \in DOMAIN records :
    /\ records[k].location < loc
    /\ records[k].name = input[loc].name
    /\ (records[k].type = BaseClass \/ input[loc].type = BaseClass)

\* C15 as stated: a dropped record is reported as duplicate exactly when an
\* earlier record of the input has its name and type, and as redundant
\* exactly when it is dropped for a BaseClass conflict without being such a
\* repeat.
C15_DuplicateIffEarlierInput ==
  pc = "filtered" =>
    LET input == fnArgs[1]
        warnings == fnResult[1].warnings
    IN  \A k \in DOMAIN warnings :
          /\ warnings[k].kind = "Duplicate"
               <=> EarlierSame(input, input, warnings[k].loc)
          /\ warnings[k].kind = "Redundant"
               <=> (/\ ~EarlierSame(input, input, warnings[k].loc)
                    /\ EarlierBaseConflict(input, input, warnings[k].loc))

\* C15 amended: a dropped record is reported as duplicate exactly when an
\* earlier kept record has its name and type, and as redundant exactly when
\* no earlier kept record has its name and type and an earlier kept record of
\* its name is a BaseClass or the record is a BaseClass itself.
C15_DuplicateIffEarlierKept ==
  pc = "filtered" =>
    LET input == fnArgs[1]
        out == fnResult[1].result
        warnings == fnResult[1].warnings
    IN  \A k \in DOMAIN warnings :
          /\ warnings[k].kind \in {"Duplicate", "Redundant"}
          /\ warnings[k].kind = "Duplicate"
               <=> EarlierSame(out, input, warnings[k].loc)
          /\ warnings[k].kind = "Redundant"
               <=> (/\ ~EarlierSame(out, input, warnings[k].loc)
                    /\ EarlierBaseConflict(out, input, warnings[k].loc))

\* C15 witness: a duplicate of a kept record, a redundant BaseClass, and a
\* repeat of that dropped BaseClass, which is reported as redundant too
C15_Witness ==
  /\ pc = "filtered"
  /\ Len(fnArgs[1]) = 4
  /\ fnArgs[1][1].name = fnArgs[1][4].name
  /\ fnArgs[1][1].type = PointClass
  /\ fnArgs[1][2] = [fnArgs[1][1] EXCEPT !.location = 2, !.description = Some(2)]
  /\ fnArgs[1][3].type = BaseClass
  /\ fnArgs[1][4].type = BaseClass
  /\ Len(fnResult[1].warnings) = 3
  /\ fnResult[1].warnings[1].kind = "Duplicate"
  /\ fnResult[1].warnings[2].kind = "Redundant"
  /\ fnResult[1].warnings[3].kind = "Redundant"


\* The names of the classes of the frames of the walk from the given one on
PathNames(from) == {ClassAt(stack[k].loc).name : k \in from..Len(stack)}

C16_RootReentered ==
  /\ pc = "walk"
  /\ Len(stack) = 3
  /\ Top.loc = stack[1].loc
  /\ ClassAt(stack[1].loc).name \in visited


\* What C17 states of every definition but its size: one definition for each
\* resolved record, in order, of its name and type, none of a BaseClass, with
\* the resolved color or the caller's default color and the resolved
\* description or the empty string
DefinitionsMatch ==
  LET definitions == fnResult[1]
  IN  /\ Len(definitions) = Len(resolved)
      /\ \A k \in DOMAIN definitions :
           /\ definitions[k].name = resolved[k].name
           /\ definitions[k].type = resolved[k].type
           /\ definitions[k].type \in {PointClass, BrushClass}
           /\ definitions[k].color =
                ValueOr(resolved[k].color, fnArgs[1].defaultEntityColor)
           /\ definitions[k].description = ValueOr(resolved[k].description, EmptyString)

HasSize(definition, classInfo) ==
  /\ "size" \in DOMAIN definition
  /\ definition.size = ValueOr(classInfo.size, DefaultSize)

\* C17 as stated: createDefinitions returns one definition for every resolved
\* PointClass or BrushClass record, in order and with its name; each has the
\* resolved color or the default color, the resolved size or the box from -8
\* to +8, and the resolved description or the empty string.
C17_DefinitionsWithSize ==
  pc = "created" =>
    /\ DefinitionsMatch
    /\ \A k \in DOMAIN fnResult[1] : HasSize(fnResult[1][k], resolved[k])

\* C17 amended: as stated, but only the definition of a PointClass has a size
\* (the resolved one or the box from -8 to +8); the definition of a
\* BrushClass is made of name, color, description and property definitions
\* and has no size.
C17_PointDefinitionsWithSize ==
  pc = "created" =>
    /\ DefinitionsMatch
    /\ \A k \in DOMAIN fnResult[1] :
         IF fnResult[1][k].type = PointClass
         THEN HasSize(fnResult[1][k], resolved[k])
         ELSE DOMAIN fnResult[1][k] =
                {"type", "name", "color", "description", "propertyDefinitions"}

\* C17 witness: a PointClass that inherits its color from a super class and
\* has no size and no description in its hierarchy gets that color, the
\* default box and the empty description
C17_Witness ==
  /\ pc = "created"
  /\ Len(fnResult[1]) = 1
  /\ fnResult[1][1].type = PointClass
  /\ ~HasValue(ClassAt(resolved[1].location).color)
  /\ HasValue(resolved[1].color)
  /\ fnResult[1][1].color = resolved[1].color[1]
  /\ fnResult[1][1].size = DefaultSize
  /\ fnResult[1][1].description = EmptyString

\* Nothing is set in the hierarchy of a class with a super class: the
\* definition has the caller's default color
C17_AllDefaults ==
  /\ pc = "created"
  /\ Len(fnResult[1]) = 1
  /\ merged # <<>>
  /\ fnResult[1][1].type = PointClass
  /\ fnResult[1][1].color = fnArgs[1].defaultEntityColor
  /\ fnResult[1][1].size = DefaultSize
  /\ fnResult[1][1].description = EmptyString

\* A BrushClass with a resolved size, and a PointClass and a BrushClass in
\* one batch with a BaseClass that gets no definition
C17_BrushWithSize ==
  /\ pc = "created"
  /\ \E k \in DOMAIN fnResult[1] :
       fnResult[1][k].type = BrushClass /\ HasValue(resolved[k].size)

C17_TwoDefinitions ==
  /\ pc = "created"
  /\ Len(filteredClassInfos) = 3
  /\ Len(fnResult[1]) = 2
  /\ fnResult[1][1].type = BrushClass
  /\ fnResult[1][2].type = PointClass


\* The distinct class names of the filtered list
FilteredNames == {filteredClassInfos[k].name : k \in DOMAIN filteredClassInfos}

\* The number of activations of inheritFromAndRecurse that are open
Depth == Len(stack) - 1

\* C18: resolveInheritance terminates on every input, also with cycles,
\* self-references and diamonds: the depth of the walk for one inheriting
\* class is never more than the number of distinct class names of the
\* filtered list, and the call returns.
C18_Terminates ==
  /\ [](pc = "walk" => Depth <= Cardinality(FilteredNames))
  /\ <>Done

\* C18 witness: in a hierarchy of at least two names with a cycle, the walk
\* is as deep as there are names
C18_Witness ==
  /\ pc = "walk"
  /\ Cardinality(FilteredNames) >= 2
  /\ Depth = Cardinality(FilteredNames)

\* The call has returned from a hierarchy with a self-reference
C18_SelfReferenceDone ==
  /\ Done
  /\ \E loc \in DOMAIN classInfos :
       \E k \in DOMAIN ClassAt(loc).superClasses :
         ClassAt(loc).superClasses[k] = ClassAt(loc).name
  /\ \E k \in DOMAIN status : status[k].kind = "Cycle"


\* The candidates of the filtered list for the name of the pending edge
PendingCandidates == FindClassInfos(filteredClassInfos, PendingName)

\* C19: in a call of resolveInheritance an edge gets a 'no matching super
\* class' error exactly when the filtered list holds no class of the declared
\* name; the class being resolved is not a BaseClass, several candidates are
\* one PointClass and one BrushClass, and the one of the type of the class
\* being resolved is selected.
C19_NoMatchIffNoCandidate ==
  /\ [](EdgePending =>
          /\ inheritingClass[1].type # BaseClass
          /\ HasValue(PendingSelection) <=> PendingName \in FilteredNames
          /\ Len(PendingCandidates) <= 2
          /\ Len(PendingCandidates) = 2 =>
               /\ {PendingCandidates[1].type, PendingCandidates[2].type} =
                    {PointClass, BrushClass}
               /\ PendingSelection[1].type = inheritingClass[1].type)
  /\ [][EdgePending =>
          ((PendingName \notin FilteredNames)
             <=> (/\ Len(status') = Len(status) + 1
                  /\ Last(status').kind = "NoMatch"
                  /\ Last(status').name = PendingName))]_vars
  /\ [](\A k \in DOMAIN status :
          status[k].kind = "NoMatch" => status[k].name \notin FilteredNames)

\* C19 witness: the name of the pending edge has two candidates, and the
\* second one has the type of the class being resolved and is selected
C19_Witness ==
  /\ EdgePending
  /\ Len(PendingCandidates) = 2
  /\ PendingCandidates[2].type = inheritingClass[1].type
  /\ PendingSelection[1] = PendingCandidates[2]
  /\ \E k \in DOMAIN status : status[k].kind = "Redundant"


\* The warnings reported so far at a location
WarningsReportedAt(loc) ==
  {k \in DOMAIN status : status[k].level = "warn" /\ status[k].loc = loc}

\* C20: filterRedundantClasses is idempotent: in createDefinitions the filter
\* of resolveInheritance gets the output of the first filter, returns it
\* unchanged and reports nothing, so that every dropped class of the input
\* has exactly one warning and every kept class has none.
C20_FilterIdempotent ==
  /\ [][pc = "createFiltered" =>
          /\ filteredClassInfos' = fnArgs[1].classInfos
          /\ status' = status]_vars
  /\ [](pc \in {"resolve", "created"} =>
          \A loc \in DOMAIN classInfos :
            Cardinality(WarningsReportedAt(loc)) =
              IF \E k \in DOMAIN filteredClassInfos :
                   filteredClassInfos[k].location = loc
              THEN 0 ELSE 1)

\* C20 witness: both filters have run on an input with a duplicate and a
\* redundant class; one class is left and two warnings are reported
C20_Witness ==
  /\ pc = "resolve"
  /\ HasValue(fnArgs)
  /\ Len(classInfos) = 3
  /\ filteredClassInfos = fnArgs[1].classInfos
  /\ Len(filteredClassInfos) = 1
  /\ Len(status) = 2
  /\ {status[1].kind, status[2].kind} = {"Duplicate", "Redundant"}

====
